---- MODULE Spec2Model ----
(***************************************************************************)
(* CareerNav backend (backend/app.py): the Flask handlers that accept an   *)
(* uploaded resume, store it in UPLOAD_FOLDER, run the extraction helpers  *)
(* on it, optionally ask the Gemini service for recommendations, remove    *)
(* the stored file and answer.  Two worker threads serve requests          *)
(* concurrently against the one upload folder.                             *)
(***************************************************************************)
EXTENDS Integers, Sequences, FiniteSets, TLC

VARIABLES
    gemini_service,   \* TRUE: a GeminiService object, FALSE: None (app.py 35-46)
    upload_folder,    \* the files of UPLOAD_FOLDER: path -> stored document
    pc,               \* position of each worker inside its handler
    req,              \* the request a worker is serving
    file_path,        \* the handler's local file_path
    response,         \* the (body, status) the handler is going to return
    trace             \* what the handler did: calls made, file read, removal

vars == <<gemini_service, upload_folder, pc, req, file_path, response, trace>>

(***************************************************************************)
(* Bounds                                                                  *)
(***************************************************************************)
MaxMillis == 1

Workers == {1, 2}

(***************************************************************************)
(* Python values                                                           *)
(***************************************************************************)
PyNone == [t |-> "None"]
PyStr(s) == [t |-> "str", v |-> s]
PyDict(d) == [t |-> "dict", v |-> d]
Raised(e) == [t |-> "raise", v |-> e]
EmptyDict == << >>

\* dict.get(key, default)
Get(d, key, default) == IF key \in DOMAIN d THEN d[key] ELSE default

\* truth value of None, a string (sequence of tokens) or a dict
Truthy(x) ==
    CASE x.t = "None" -> FALSE
      [] x.t = "str"  -> Len(x.v) > 0
      [] x.t = "dict" -> DOMAIN x.v # {}
      [] OTHER        -> TRUE

\* str.lower() on the extensions that occur
Lower(s) ==
    CASE s = ".PDF"  -> ".pdf"
      [] s = ".DOCX" -> ".docx"
      [] s = ".DOC"  -> ".doc"
      [] s = ".TXT"  -> ".txt"
      [] OTHER       -> s

\* os.path.splitext(name)[1]
SplitExt(name) == name.ext

\* os.path.join(UPLOAD_FOLDER, name)
Join(name) == [dir |-> "uploads", name |-> name]

(***************************************************************************)
(* The uploads the model draws from                                        *)
(***************************************************************************)
Whitespace == {" ", "\n"}

ImageOnly == << >>
Blank == <<" ", "\n">>
Resume1 == <<"python", " ", " ", "experience", "\n", "python">>
Resume2 == <<" ", "degree", " ", "sql">>

\* the documents users upload: a filename and the text its bytes hold
Documents ==
    { [ext |-> ".pdf", text |-> ImageOnly],
      [ext |-> ".pdf", text |-> Blank],
      [ext |-> ".pdf", text |-> Resume1],
      [ext |-> ".pdf", text |-> Resume2],
      [ext |-> ".DOCX", text |-> Resume1],
      [ext |-> ".txt", text |-> Resume1] }

\* the format the bytes of an upload really have
FormatOf(ext) == Lower(ext)

\* an upload: the filename and the byte stream (its real format, its text);
\* by marks the request that sent it
Uploads(p) ==
    { [filename |-> [stem |-> "cv", ext |-> d.ext],
       doc |-> [by |-> p, fmt |-> FormatOf(d.ext), text |-> d.text]] : d \in Documents }

NoFile == [filename |-> [stem |-> "", ext |-> ""], doc |-> [by |-> 0, fmt |-> "", text |-> << >>]]

(***************************************************************************)
(* utils.resume_extractor (imported at app.py 10; behaviour from the       *)
(* specification sections 4.1-4.5)                                         *)
(***************************************************************************)
SupportedExts == {".pdf", ".doc", ".docx"}

\* extract_resume_text(path): the reader is chosen by the extension of the
\* path; it answers the text, None, or raises
extract_resume_text(path, folder) ==
    IF path \notin DOMAIN folder
    THEN {PyNone, Raised("FileNotFoundError")}
    ELSE IF Lower(SplitExt(path.name)) \notin SupportedExts
    THEN {PyNone, Raised("UnsupportedFormat")}
    ELSE IF folder[path].fmt # Lower(SplitExt(path.name))
    THEN {PyNone, Raised("DecodeFailure")}
    ELSE {PyStr(folder[path].text), Raised("DecodeFailure")}
         \cup (IF folder[path].text = << >> THEN {PyNone} ELSE {})

RECURSIVE Collapse(_)
Collapse(s) ==
    IF s = << >> THEN << >>
    ELSE IF Head(s) \in Whitespace
         THEN IF Tail(s) = << >> \/ Head(Tail(s)) \in Whitespace
              THEN Collapse(Tail(s))
              ELSE <<" ">> \o Collapse(Tail(s))
         ELSE <<Head(s)>> \o Collapse(Tail(s))

\* whitespace runs collapsed to one space, then trimmed
CleanText(s) ==
    LET c == Collapse(s)
    IN  IF c # << >> /\ Head(c) = " " THEN Tail(c) ELSE c

\* clean_extracted_text(text); what it does with None is not specified
clean_extracted_text(text) ==
    IF text.t = "None"
    THEN {PyStr(<< >>), Raised("TypeError")}
    ELSE {PyStr(CleanText(text.v))}

Taxonomy == [python |-> "programming", sql |-> "databases"]
ExperienceKeywords == {"experience"}
EducationKeywords == {"degree"}

RECURSIVE Dedupe(_)
Dedupe(s) ==
    IF s = << >> THEN << >>
    ELSE LET front == Dedupe(SubSeq(s, 1, Len(s) - 1))
             last == s[Len(s)]
         IN  IF \E i \in 1..Len(front) : front[i] = last
             THEN front ELSE Append(front, last)

IsSkill(tok) == tok \in DOMAIN Taxonomy
IsExperience(tok) == tok \in ExperienceKeywords
IsEducation(tok) == tok \in EducationKeywords

SkillsOf(clean) == Dedupe(SelectSeq(clean, IsSkill))

SkillsSummary(skills) ==
    LET cats == {Taxonomy[skills[i]] : i \in 1..Len(skills)}
    IN  [c \in cats |-> SelectSeq(skills, LAMBDA sk : Taxonomy[sk] = c)]

Profile(clean) ==
    [email |-> PyNone,
     skills |-> SkillsOf(clean),
     skills_summary |-> SkillsSummary(SkillsOf(clean)),
     experience_keywords |-> Dedupe(SelectSeq(clean, IsExperience)),
     education_keywords |-> Dedupe(SelectSeq(clean, IsEducation)),
     experience_entries |-> << >>,
     project_entries |-> << >>]

\* extract_basic_info(clean_text, extracted_text); what it does when the raw
\* text is None is not specified
extract_basic_info(clean, raw) ==
    IF raw.t = "None"
    THEN {PyDict(Profile(clean.v)), Raised("TypeError")}
    ELSE {PyDict(Profile(clean.v))}

(***************************************************************************)
(* utils.gemini_service.GeminiService (imported at app.py 11): what the    *)
(* four calls may answer                                                   *)
(***************************************************************************)
CareerRecs ==
    { PyNone,
      PyDict(EmptyDict),
      PyDict([summary |-> "none"]),
      PyDict([recommended_roles |-> << >>]),
      PyDict([recommended_roles |-> << EmptyDict >>]),
      PyDict([recommended_roles |-> << [title |-> "Data Engineer"] >>]) }

GeminiFailures == {"none", "career", "skills", "gaps", "path"}

Call(method, arg) == [method |-> method, arg |-> arg]

\* s[:n]
Take(s, n) == SubSeq(s, 1, IF Len(s) < n THEN Len(s) ELSE n)

(***************************************************************************)
(* Responses                                                               *)
(***************************************************************************)
Error(status, message, detail) ==
    [status |-> status, body |-> [error |-> message, detail |-> detail]]

Ok(body) == [status |-> 200, body |-> body]

NoResponse == [status |-> 0, body |-> EmptyDict]

NoPath == Join([stem |-> "", ext |-> ""])

NoTrace == [extractArg |-> NoPath, read |-> 0, extracted |-> PyNone,
            raised |-> "", calls |-> << >>, removal |-> "none"]

NoReq == [endpoint |-> "", filename |-> NoFile.filename, data |-> PyNone]

\* file.save(file_path)
Save(folder, path, doc) == (path :> doc) @@ folder

\* os.remove(file_path)
Remove(folder, path) == [q \in DOMAIN folder \ {path} |-> folder[q]]

(***************************************************************************)
(* /process  (app.py 52-171)                                               *)
(***************************************************************************)
\* lines 108: the target_roles handed to suggest_skill_improvements
TargetRoles(career_recs) ==
    IF Truthy(career_recs)
    THEN LET roles == Take(Get(career_recs.v, "recommended_roles", << >>), 3)
         IN  [i \in 1..Len(roles) |-> Get(roles[i], "title", "")]
    ELSE <<"Software Developer">>

\* line 122: top_role, or IndexError
TopRole(career_recs) ==
    IF Truthy(career_recs)
    THEN LET roles == Get(career_recs.v, "recommended_roles", << EmptyDict >>)
         IN  IF Len(roles) = 0
             THEN Raised("IndexError")
             ELSE PyStr(Get(roles[1], "title", "Software Developer"))
    ELSE PyStr("Software Developer")

\* lines 94-133: ai_recommendations and the calls made, when the service
\* answers career_recs and fails at the call failAt
AiRecommendations(basic_info, career_recs, failAt) ==
    LET c1 == Call("generate_career_recommendations",
                   Get(basic_info, "skills_summary", EmptyDict))
        c2 == Call("suggest_skill_improvements", TargetRoles(career_recs))
        c3 == Call("analyze_resume_gaps",
                   Get(basic_info, "skills_summary", EmptyDict))
        c4 == Call("generate_learning_path", TopRole(career_recs).v)
        r1 == [career_recommendations |-> career_recs]
        r2 == r1 @@ [skill_improvements |-> "skill_suggestions"]
        r3 == r2 @@ [resume_analysis |-> "resume_analysis"]
        r4 == r3 @@ [learning_path |-> "learning_path"]
        Fail(r, e) == r @@ [error |-> e]
    IN  IF failAt = "career"
        THEN [insights |-> Fail(EmptyDict, "GeminiError"), calls |-> <<c1>>]
        ELSE IF failAt = "skills"
        THEN [insights |-> Fail(r1, "GeminiError"), calls |-> <<c1, c2>>]
        ELSE IF failAt = "gaps"
        THEN [insights |-> Fail(r2, "GeminiError"), calls |-> <<c1, c2, c3>>]
        ELSE IF TopRole(career_recs).t = "raise"
        THEN [insights |-> Fail(r3, "IndexError"), calls |-> <<c1, c2, c3>>]
        ELSE IF failAt = "path"
        THEN [insights |-> Fail(r3, "GeminiError"), calls |-> <<c1, c2, c3, c4>>]
        ELSE [insights |-> r4, calls |-> <<c1, c2, c3, c4>>]

\* lines 93-133
AiOutcomes(basic_info) ==
    IF gemini_service
    THEN {AiRecommendations(basic_info, cr, f) : cr \in CareerRecs, f \in GeminiFailures}
    ELSE {[insights |-> EmptyDict, calls |-> << >>]}

\* faulty variant of lines 136-157: has_education_keywords taken from the
\* experience keywords
ProcessResponse_EducationFromExperience(clean_text, basic_info, ai_recommendations) ==
    Ok([summary |-> "Resume processed successfully with AI analysis",
        extracted_info |->
          [text_length |-> Len(clean_text),
           email |-> Get(basic_info, "email", PyNone),
           detected_skills |-> Get(basic_info, "skills", << >>),
           skills_by_category |-> Get(basic_info, "skills_summary", EmptyDict),
           total_skills_found |-> Len(Get(basic_info, "skills", << >>)),
           has_experience_keywords |-> Len(Get(basic_info, "experience_keywords", << >>)) > 0,
           has_education_keywords |-> Len(Get(basic_info, "experience_keywords", << >>)) > 0,
           experience_entries |-> Get(basic_info, "experience_entries", << >>),
           project_entries |-> Get(basic_info, "project_entries", << >>),
           experience_keywords |-> Get(basic_info, "experience_keywords", << >>)],
        ai_insights |-> ai_recommendations])

\* lines 136-157
ProcessResponse(clean_text, basic_info, ai_recommendations) ==
    Ok([summary |-> "Resume processed successfully with AI analysis",
        extracted_info |->
          [text_length |-> Len(clean_text),
           email |-> Get(basic_info, "email", PyNone),
           detected_skills |-> Get(basic_info, "skills", << >>),
           skills_by_category |-> Get(basic_info, "skills_summary", EmptyDict),
           total_skills_found |-> Len(Get(basic_info, "skills", << >>)),
           has_experience_keywords |-> Len(Get(basic_info, "experience_keywords", << >>)) > 0,
           has_education_keywords |-> Len(Get(basic_info, "education_keywords", << >>)) > 0,
           experience_entries |-> Get(basic_info, "experience_entries", << >>),
           project_entries |-> Get(basic_info, "project_entries", << >>),
           experience_keywords |-> Get(basic_info, "experience_keywords", << >>)],
        ai_insights |-> ai_recommendations])

\* faulty variant of lines 66-161: no try/except around the collaborator
\* calls, so that a raising call reaches the outer handler
ProcessBody_NoInnerExcept(extracted_text) ==
    LET Fault(f, e) == {[response |-> Error(500, "Error processing resume", e),
                         calls |-> << >>, raised |-> f]}
    IN  IF extracted_text.t = "raise" THEN Fault("extract_resume_text", extracted_text.v)
        ELSE IF ~Truthy(extracted_text)
        THEN {[response |-> Error(400, "Could not extract text from resume", ""),
               calls |-> << >>, raised |-> ""]}
        ELSE UNION { IF cl.t = "raise" THEN Fault("clean_extracted_text", cl.v)
                     ELSE UNION { IF bi.t = "raise" THEN Fault("extract_basic_info", bi.v)
                                  ELSE { IF "error" \in DOMAIN a.insights
                                         THEN [response |-> Error(500, "Error processing resume", a.insights.error),
                                               calls |-> a.calls, raised |-> ""]
                                         ELSE [response |-> ProcessResponse(cl.v, bi.v, a.insights),
                                               calls |-> a.calls, raised |-> ""]
                                         : a \in AiOutcomes(bi.v) }
                                  : bi \in extract_basic_info(cl, extracted_text) }
                     : cl \in clean_extracted_text(extracted_text) }

\* lines 66-161: the outcomes of the try block once extraction answered
ProcessBody(extracted_text) ==
    LET Fault(f, e) == {[response |-> Error(500, "Error processing resume", e),
                         calls |-> << >>, raised |-> f]}
    IN  IF extracted_text.t = "raise" THEN Fault("extract_resume_text", extracted_text.v)
        ELSE IF ~Truthy(extracted_text)
        THEN {[response |-> Error(400, "Could not extract text from resume", ""),
               calls |-> << >>, raised |-> ""]}
        ELSE UNION { IF cl.t = "raise" THEN Fault("clean_extracted_text", cl.v)
                     ELSE UNION { IF bi.t = "raise" THEN Fault("extract_basic_info", bi.v)
                                  ELSE { [response |-> ProcessResponse(cl.v, bi.v, a.insights),
                                          calls |-> a.calls, raised |-> ""]
                                         : a \in AiOutcomes(bi.v) }
                                  : bi \in extract_basic_info(cl, extracted_text) }
                     : cl \in clean_extracted_text(extracted_text) }

\* lines 54-64: the request arrives; no file -> 400, else the file is saved
process_resume(p) ==
    /\ pc[p] = "idle"
    /\ \E file \in Uploads(p) \cup {NoFile} :
         IF file = NoFile
         THEN /\ response' = [response EXCEPT ![p] = Error(400, "No resume uploaded", "")]
              /\ req' = [req EXCEPT ![p] = [endpoint |-> "/process", filename |-> file.filename, data |-> PyNone]]
              /\ pc' = [pc EXCEPT ![p] = "done"]
              /\ UNCHANGED <<upload_folder, file_path>>
         ELSE /\ file_path' = [file_path EXCEPT ![p] = Join(file.filename)]
              /\ upload_folder' = Save(upload_folder, Join(file.filename), file.doc)
              /\ req' = [req EXCEPT ![p] = [endpoint |-> "/process", filename |-> file.filename, data |-> PyNone]]
              /\ pc' = [pc EXCEPT ![p] = "try"]
              /\ UNCHANGED response
    /\ UNCHANGED <<gemini_service, trace>>

\* who stored the file a path names (0: there is none)
StoredBy(folder, path) == IF path \in DOMAIN folder THEN folder[path].by ELSE 0

\* lines 66-161
process_resume_try(p) ==
    /\ pc[p] = "try"
    /\ req[p].endpoint = "/process"
    /\ \E ex \in extract_resume_text(file_path[p], upload_folder) :
         \E out \in ProcessBody(ex) :
            /\ response' = [response EXCEPT ![p] = out.response]
            /\ trace' = [trace EXCEPT ![p] =
                           [extractArg |-> file_path[p],
                            read |-> StoredBy(upload_folder, file_path[p]),
                            extracted |-> ex,
                            raised |-> out.raised,
                            calls |-> out.calls,
                            removal |-> "none"]]
    /\ pc' = [pc EXCEPT ![p] = "finally"]
    /\ UNCHANGED <<gemini_service, upload_folder, req, file_path>>

(***************************************************************************)
(* /extract-skills  (app.py 173-223)                                       *)
(***************************************************************************)
\* line 188: f"resume-{int(time.time() * 1000)}.pdf"
SkillsFilename(ms) == [stem |-> "resume-" \o ToString(ms), ext |-> ".pdf"]

\* lines 201-209
SkillsResponse(basic_info) ==
    Ok([skills |-> Get(basic_info, "skills", << >>),
        skills_by_category |-> Get(basic_info, "skills_summary", EmptyDict),
        total_skills_found |-> Len(Get(basic_info, "skills", << >>)),
        extracted_info |->
          [email |-> Get(basic_info, "email", PyStr(<< >>)),
           detected_skills |-> Get(basic_info, "skills", << >>)]])

\* faulty variant of lines 192-213: no except clause, the exception leaves
\* the handler and the framework answers its own error page
SkillsBody_Uncaught(extracted_text) ==
    LET Fault(f, e) == [response |-> [status |-> 500, body |-> [traceback |-> e]], raised |-> f]
    IN  IF extracted_text.t = "raise" THEN {Fault("extract_resume_text", extracted_text.v)}
        ELSE UNION { IF cl.t = "raise" THEN {Fault("clean_extracted_text", cl.v)}
                     ELSE { IF bi.t = "raise" THEN Fault("extract_basic_info", bi.v)
                            ELSE [response |-> SkillsResponse(bi.v), raised |-> ""]
                            : bi \in extract_basic_info(cl, extracted_text) }
                     : cl \in clean_extracted_text(extracted_text) }

\* lines 192-213: the outcomes of the try block once extraction answered
SkillsBody(extracted_text) ==
    LET Fault(f, e) == [response |-> Error(500, "Error extracting skills", e), raised |-> f]
    IN  IF extracted_text.t = "raise" THEN {Fault("extract_resume_text", extracted_text.v)}
        ELSE UNION { IF cl.t = "raise" THEN {Fault("clean_extracted_text", cl.v)}
                     ELSE { IF bi.t = "raise" THEN Fault("extract_basic_info", bi.v)
                            ELSE [response |-> SkillsResponse(bi.v), raised |-> ""]
                            : bi \in extract_basic_info(cl, extracted_text) }
                     : cl \in clean_extracted_text(extracted_text) }

\* lines 178-190
extract_skills(p) ==
    /\ pc[p] = "idle"
    /\ \E file \in Uploads(p) \cup {NoFile}, ms \in 0..MaxMillis :
         IF file = NoFile
         THEN /\ response' = [response EXCEPT ![p] = Error(400, "No resume file provided", "")]
              /\ req' = [req EXCEPT ![p] = [endpoint |-> "/extract-skills", filename |-> file.filename, data |-> PyNone]]
              /\ pc' = [pc EXCEPT ![p] = "done"]
              /\ UNCHANGED <<upload_folder, file_path>>
         ELSE /\ file_path' = [file_path EXCEPT ![p] = Join(SkillsFilename(ms))]
              /\ upload_folder' = Save(upload_folder, Join(SkillsFilename(ms)), file.doc)
              /\ req' = [req EXCEPT ![p] = [endpoint |-> "/extract-skills", filename |-> file.filename, data |-> PyNone]]
              /\ pc' = [pc EXCEPT ![p] = "try"]
              /\ UNCHANGED response
    /\ UNCHANGED <<gemini_service, trace>>

\* lines 192-213
extract_skills_try(p) ==
    /\ pc[p] = "try"
    /\ req[p].endpoint = "/extract-skills"
    /\ \E ex \in extract_resume_text(file_path[p], upload_folder) :
         \E out \in SkillsBody(ex) :
            /\ response' = [response EXCEPT ![p] = out.response]
            /\ trace' = [trace EXCEPT ![p] =
                           [extractArg |-> file_path[p],
                            read |-> StoredBy(upload_folder, file_path[p]),
                            extracted |-> ex,
                            raised |-> out.raised,
                            calls |-> << >>,
                            removal |-> "none"]]
    /\ pc' = [pc EXCEPT ![p] = "finally"]
    /\ UNCHANGED <<gemini_service, upload_folder, req, file_path>>

(***************************************************************************)
(* /extract-resume  (app.py 225-297)                                       *)
(***************************************************************************)
\* line 236
allowed_extensions == {".pdf", ".docx", ".doc"}

\* lines 259-283
ResumeResponse(filename, file_extension, clean_text, basic_info) ==
    Ok([success |-> TRUE,
        file_info |-> [filename |-> filename,
                       file_type |-> file_extension,
                       text_length |-> Len(clean_text)],
        extracted_content |->
          [full_text |-> clean_text,
           basic_info |->
             [email |-> Get(basic_info, "email", PyNone),
              skills |-> Get(basic_info, "skills", << >>),
              skills_by_category |-> Get(basic_info, "skills_summary", EmptyDict),
              experience_keywords |-> Get(basic_info, "experience_keywords", << >>),
              education_keywords |-> Get(basic_info, "education_keywords", << >>)]],
        analysis |->
          [has_contact_info |-> Truthy(Get(basic_info, "email", PyNone)),
           skills_detected |-> Len(Get(basic_info, "skills", << >>)),
           appears_complete |-> Len(clean_text) > 200,
           has_technical_background |-> Len(Get(basic_info, "skills", << >>)) > 5]])

\* lines 246-289: the outcomes of the try block once extraction answered
ResumeBody(filename, extracted_text) ==
    LET Fault(f, e) == [response |-> Error(500, "Error extracting resume", e), raised |-> f]
    IN  IF extracted_text.t = "raise" THEN {Fault("extract_resume_text", extracted_text.v)}
        ELSE IF ~Truthy(extracted_text)
        THEN {[response |-> Error(400, "Could not extract text from resume. The file might be corrupted or contain only images.", ""),
               raised |-> ""]}
        ELSE UNION { IF cl.t = "raise" THEN {Fault("clean_extracted_text", cl.v)}
                     ELSE { IF bi.t = "raise" THEN Fault("extract_basic_info", bi.v)
                            ELSE [response |-> ResumeResponse(filename, Lower(SplitExt(filename)), cl.v, bi.v),
                                  raised |-> ""]
                            : bi \in extract_basic_info(cl, extracted_text) }
                     : cl \in clean_extracted_text(extracted_text) }

\* lines 230-244
extract_resume(p) ==
    /\ pc[p] = "idle"
    /\ \E file \in Uploads(p) \cup {NoFile} :
         /\ req' = [req EXCEPT ![p] = [endpoint |-> "/extract-resume", filename |-> file.filename, data |-> PyNone]]
         /\ IF file = NoFile
            THEN /\ response' = [response EXCEPT ![p] = Error(400, "No resume uploaded", "")]
                 /\ pc' = [pc EXCEPT ![p] = "done"]
                 /\ UNCHANGED <<upload_folder, file_path>>
            ELSE IF Lower(SplitExt(file.filename)) \notin allowed_extensions
            THEN /\ response' = [response EXCEPT ![p] =
                                   Error(400, "Unsupported file format. Allowed: .pdf, .docx, .doc", "")]
                 /\ pc' = [pc EXCEPT ![p] = "done"]
                 /\ UNCHANGED <<upload_folder, file_path>>
            ELSE /\ file_path' = [file_path EXCEPT ![p] = Join(file.filename)]
                 /\ upload_folder' = Save(upload_folder, Join(file.filename), file.doc)
                 /\ pc' = [pc EXCEPT ![p] = "try"]
                 /\ UNCHANGED response
    /\ UNCHANGED <<gemini_service, trace>>

\* lines 246-289
extract_resume_try(p) ==
    /\ pc[p] = "try"
    /\ req[p].endpoint = "/extract-resume"
    /\ \E ex \in extract_resume_text(file_path[p], upload_folder) :
         \E out \in ResumeBody(req[p].filename, ex) :
            /\ response' = [response EXCEPT ![p] = out.response]
            /\ trace' = [trace EXCEPT ![p] =
                           [extractArg |-> file_path[p],
                            read |-> StoredBy(upload_folder, file_path[p]),
                            extracted |-> ex,
                            raised |-> out.raised,
                            calls |-> << >>,
                            removal |-> "none"]]
    /\ pc' = [pc EXCEPT ![p] = "finally"]
    /\ UNCHANGED <<gemini_service, upload_folder, req, file_path>>

(***************************************************************************)
(* /ai/*  (app.py 299-438)                                                 *)
(***************************************************************************)
\* request.get_json(): None, {} or a JSON object
Bodies ==
    { PyNone,
      PyDict(EmptyDict),
      PyDict([skills_by_category |-> [programming |-> <<"python">>]]),
      PyDict([current_skills |-> <<"python">>]),
      PyDict([resume_text |-> ""]),
      PyDict([resume_text |-> "python developer"]),
      PyDict([target_role |-> ""]),
      PyDict([target_role |-> "Data Engineer"]),
      PyDict([resume_text |-> "python developer", target_role |-> "Data Engineer"]) }

GeminiAnswers == {"ok", "raise"}

Unavailable == [response |-> Error(503, "AI service not available", ""), calls |-> << >>]
NoData == [response |-> Error(400, "No data provided", ""), calls |-> << >>]

\* the try block of an /ai/* handler: the one service call and the answer
AiCall(method, args, fail_message, answer) ==
    [response |-> IF answer = "raise"
                  THEN Error(500, fail_message, "GeminiError")
                  ELSE Ok([success |-> TRUE, result |-> method]),
     calls |-> << Call(method, args) >>]

\* lines 304-336
CareerRecommendations(data, answer) ==
    IF ~gemini_service THEN Unavailable
    ELSE IF ~Truthy(data) THEN NoData
    ELSE AiCall("generate_career_recommendations",
                [skills_by_category |-> Get(data.v, "skills_by_category", EmptyDict),
                 experience_level |-> Get(data.v, "experience_level", "intermediate")],
                "Error generating recommendations", answer)

\* lines 343-368
SkillAnalysis(data, answer) ==
    IF ~gemini_service THEN Unavailable
    ELSE IF ~Truthy(data) THEN NoData
    ELSE AiCall("suggest_skill_improvements",
                [current_skills |-> Get(data.v, "current_skills", << >>),
                 target_roles |-> Get(data.v, "target_roles", << >>)],
                "Error analyzing skills", answer)

\* lines 375-403
ResumeAnalysis(data, answer) ==
    IF ~gemini_service THEN Unavailable
    ELSE IF ~Truthy(data) THEN NoData
    ELSE IF Get(data.v, "resume_text", "") = ""
    THEN [response |-> Error(400, "Resume text is required", ""), calls |-> << >>]
    ELSE AiCall("analyze_resume_gaps",
                [skills_by_category |-> Get(data.v, "skills_by_category", EmptyDict),
                 extracted_text |-> Get(data.v, "resume_text", "")],
                "Error analyzing resume", answer)

\* faulty variant of lines 410-438: the body is read before the service is
\* looked at
LearningPath_BodyFirst(data, answer) ==
    IF ~Truthy(data) THEN NoData
    ELSE IF Get(data.v, "target_role", "") = ""
    THEN [response |-> Error(400, "Target role is required", ""), calls |-> << >>]
    ELSE IF ~gemini_service THEN Unavailable
    ELSE AiCall("generate_learning_path",
                [current_skills |-> Get(data.v, "current_skills", << >>),
                 target_role |-> Get(data.v, "target_role", ""),
                 learning_preference |-> Get(data.v, "learning_preference", "balanced")],
                "Error generating learning path", answer)

\* lines 410-438
LearningPath(data, answer) ==
    IF ~gemini_service THEN Unavailable
    ELSE IF ~Truthy(data) THEN NoData
    ELSE IF Get(data.v, "target_role", "") = ""
    THEN [response |-> Error(400, "Target role is required", ""), calls |-> << >>]
    ELSE AiCall("generate_learning_path",
                [current_skills |-> Get(data.v, "current_skills", << >>),
                 target_role |-> Get(data.v, "target_role", ""),
                 learning_preference |-> Get(data.v, "learning_preference", "balanced")],
                "Error generating learning path", answer)

\* an /ai/* handler runs from the request to its response
Answer(p, endpoint, data, out) ==
    /\ req' = [req EXCEPT ![p] = [endpoint |-> endpoint, filename |-> NoFile.filename, data |-> data]]
    /\ response' = [response EXCEPT ![p] = out.response]
    /\ trace' = [trace EXCEPT ![p].calls = out.calls]
    /\ pc' = [pc EXCEPT ![p] = "done"]
    /\ UNCHANGED <<gemini_service, upload_folder, file_path>>

get_career_recommendations(p) ==
    /\ pc[p] = "idle"
    /\ \E data \in Bodies, answer \in GeminiAnswers :
        Answer(p, "/ai/career-recommendations", data, CareerRecommendations(data, answer))

analyze_skills(p) ==
    /\ pc[p] = "idle"
    /\ \E data \in Bodies, answer \in GeminiAnswers :
        Answer(p, "/ai/skill-analysis", data, SkillAnalysis(data, answer))

analyze_resume_ai(p) ==
    /\ pc[p] = "idle"
    /\ \E data \in Bodies, answer \in GeminiAnswers :
        Answer(p, "/ai/resume-analysis", data, ResumeAnalysis(data, answer))

generate_learning_path(p) ==
    /\ pc[p] = "idle"
    /\ \E data \in Bodies, answer \in GeminiAnswers :
        Answer(p, "/ai/learning-path", data, LearningPath(data, answer))

(***************************************************************************)
(* The finally block of the three upload handlers                          *)
(* (app.py 163-169, 215-221, 291-297)                                      *)
(***************************************************************************)
\* faulty variant: the cleanup follows the try statement instead of being its
\* finally clause, so that a return or an exception inside it skips the cleanup
finally_exists_AfterTry(p) ==
    /\ pc[p] = "finally"
    /\ IF response[p].status # 200
       THEN /\ pc' = [pc EXCEPT ![p] = "done"]
            /\ UNCHANGED trace
       ELSE IF file_path[p] \in DOMAIN upload_folder
       THEN /\ pc' = [pc EXCEPT ![p] = "remove"]
            /\ UNCHANGED trace
       ELSE /\ pc' = [pc EXCEPT ![p] = "done"]
            /\ trace' = [trace EXCEPT ![p].removal = "absent"]
    /\ UNCHANGED <<gemini_service, upload_folder, req, file_path, response>>

\* if os.path.exists(file_path)
finally_exists(p) ==
    /\ pc[p] = "finally"
    /\ IF file_path[p] \in DOMAIN upload_folder
       THEN /\ pc' = [pc EXCEPT ![p] = "remove"]
            /\ UNCHANGED trace
       ELSE /\ pc' = [pc EXCEPT ![p] = "done"]
            /\ trace' = [trace EXCEPT ![p].removal = "absent"]
    /\ UNCHANGED <<gemini_service, upload_folder, req, file_path, response>>

\* try: os.remove(file_path)  except Exception: print(warning)
finally_remove(p) ==
    /\ pc[p] = "remove"
    /\ \/ /\ file_path[p] \in DOMAIN upload_folder
          /\ upload_folder' = Remove(upload_folder, file_path[p])
          /\ trace' = [trace EXCEPT ![p].removal = "removed"]
       \/ /\ UNCHANGED upload_folder
          /\ trace' = [trace EXCEPT ![p].removal = "failed"]
    /\ pc' = [pc EXCEPT ![p] = "done"]
    /\ UNCHANGED <<gemini_service, req, file_path, response>>

(***************************************************************************)
(* Specification                                                           *)
(***************************************************************************)
Init ==
    /\ gemini_service \in BOOLEAN
    /\ upload_folder = << >>
    /\ pc = [p \in Workers |-> "idle"]
    /\ req = [p \in Workers |-> NoReq]
    /\ file_path = [p \in Workers |-> NoPath]
    /\ response = [p \in Workers |-> NoResponse]
    /\ trace = [p \in Workers |-> NoTrace]

Next ==
    \/ \E p \in Workers : process_resume(p)
    \/ \E p \in Workers : process_resume_try(p)
    \/ \E p \in Workers : extract_skills(p)
    \/ \E p \in Workers : extract_skills_try(p)
    \/ \E p \in Workers : extract_resume(p)
    \/ \E p \in Workers : extract_resume_try(p)
    \/ \E p \in Workers : get_career_recommendations(p)
    \/ \E p \in Workers : analyze_skills(p)
    \/ \E p \in Workers : analyze_resume_ai(p)
    \/ \E p \in Workers : generate_learning_path(p)
    \/ \E p \in Workers : finally_exists(p)
    \/ \E p \in Workers : finally_remove(p)

Spec == Init /\ [][Next]_vars

(***************************************************************************)
(* Properties                                                              *)
(***************************************************************************)
UploadEndpoints == {"/process", "/extract-skills", "/extract-resume"}
AiEndpoints == {"/ai/career-recommendations", "/ai/skill-analysis",
                "/ai/resume-analysis", "/ai/learning-path"}

\* the worker serves an upload request that carried a file
Uploading(p) == req[p].endpoint \in UploadEndpoints /\ req[p].filename # NoFile.filename

\* the handler has called extract_resume_text
Extracted(p) == Uploading(p) /\ pc[p] \in {"finally", "remove", "done"} /\ trace[p].extractArg # NoPath

\* the handler has saved its upload
Saved(p) == Uploading(p) /\ file_path[p] # NoPath

\* extraction answered, and what it answered has no usable text
NoUsableText(ex) == ex.t = "None" \/ (ex.t = "str" /\ CleanText(ex.v) = << >>)

\* C1: in every upload endpoint a document whose extension is not .pdf, .doc
\* or .docx is rejected with an unsupported-format error and
\* extract_resume_text is never invoked for it.
C1_UnsupportedRejectedBeforeExtraction ==
    \A p \in Workers :
        (Uploading(p) /\ Lower(SplitExt(req[p].filename)) \notin SupportedExts)
            => /\ trace[p].extractArg = NoPath
               /\ pc[p] = "done" => response[p].status = 400

\* C2: between a request's save and its own extraction no other request
\* overwrites or deletes its file: the extraction reads the file this same
\* request saved.
C2_ReadsOwnFile ==
    \A p \in Workers :
        Extracted(p) => trace[p].read = p

\* C3: when extraction yields no usable text after cleaning (None, an empty
\* string, or whitespace only), the handler answers 400, never a success and
\* never a 500.
C3_NoTextIsRejected ==
    \A p \in Workers :
        (Extracted(p) /\ NoUsableText(trace[p].extracted))
            => response[p].status = 400

\* C5: the path handed to extract_resume_text ends with the same extension
\* (case-insensitively) as the uploaded filename.
C5_ExtensionPreserved ==
    \A p \in Workers :
        Extracted(p) =>
            Lower(SplitExt(trace[p].extractArg.name)) = Lower(SplitExt(req[p].filename))

\* the handler is past its try block
PastTry(p) == pc[p] \in {"finally", "remove", "done"}

\* C4: in /process, whenever extraction returns non-empty text (cleaning and
\* analysis then succeed), the response is a success carrying the profile of
\* that text, whether the collaborator is absent or any of its calls raises.
C4_ProfileWhateverTheCollaborator ==
    \A p \in Workers :
        (req[p].endpoint = "/process" /\ Extracted(p)
           /\ trace[p].extracted.t = "str" /\ Len(trace[p].extracted.v) > 0)
        => /\ response[p].status = 200
           /\ "extracted_info" \in DOMAIN response[p].body
           /\ LET info == response[p].body.extracted_info
                  profile == Profile(CleanText(trace[p].extracted.v))
              IN  /\ info.detected_skills = profile.skills
                  /\ info.skills_by_category = profile.skills_summary
                  /\ info.experience_keywords = profile.experience_keywords
                  /\ info.email = profile.email
                  /\ info.text_length = Len(CleanText(trace[p].extracted.v))

\* C4 happens: a /process request answered 200 although a collaborator call raised
C4_Witness ==
    \E p \in Workers :
        /\ req[p].endpoint = "/process" /\ pc[p] = "done"
        /\ gemini_service
        /\ response[p].status = 200
        /\ "error" \in DOMAIN response[p].body.ai_insights
        /\ Len(response[p].body.extracted_info.detected_skills) > 0

ErrorPrefix(endpoint) ==
    CASE endpoint = "/process" -> "Error processing resume"
      [] endpoint = "/extract-skills" -> "Error extracting skills"
      [] endpoint = "/extract-resume" -> "Error extracting resume"
      [] OTHER -> ""

\* C6 as stated: an exception raised by extract_resume_text,
\* clean_extracted_text or extract_basic_info never leaves the handler: the
\* handler answers an explicit error response naming the reason, and the
\* temporary file is cleaned up (the file it saved is gone when it returns).
C6_FaultsAnsweredAndFileGone ==
    \A p \in Workers :
        (Uploading(p) /\ PastTry(p) /\ trace[p].raised # "")
        => /\ response[p].status = 500
           /\ DOMAIN response[p].body = {"error", "detail"}
           /\ response[p].body.error = ErrorPrefix(req[p].endpoint)
           /\ response[p].body.detail # ""
           /\ pc[p] = "done" => StoredBy(upload_folder, file_path[p]) # p

\* C6, amended: such an exception never leaves the handler: the handler
\* answers an explicit error response naming the reason, and the cleanup
\* still runs: the file it saved is gone when it returns, provided the
\* removal itself does not fail.
C6_FaultsAnsweredAndCleanedUp ==
    \A p \in Workers :
        (Uploading(p) /\ PastTry(p) /\ trace[p].raised # "")
        => /\ response[p].status = 500
           /\ DOMAIN response[p].body = {"error", "detail"}
           /\ response[p].body.error = ErrorPrefix(req[p].endpoint)
           /\ response[p].body.detail # ""
           /\ pc[p] = "done" =>
                /\ trace[p].removal # "none"
                /\ trace[p].removal # "failed" => StoredBy(upload_folder, file_path[p]) # p

\* C6 happens: the analysis raised, the handler answered 500 and removed its file
C6_Witness ==
    \E p \in Workers :
        /\ Uploading(p) /\ pc[p] = "done"
        /\ trace[p].raised = "extract_basic_info"
        /\ response[p].status = 500
        /\ trace[p].removal = "removed"

\* C7: in a successful /process response the derived fields agree with the
\* profile: has_experience_keywords iff experience_keywords is non-empty,
\* has_education_keywords iff the profile's education_keywords is non-empty,
\* total_skills_found = len(detected_skills), and skills_by_category is the
\* mapping that was passed to the collaborator.
C7_DerivedFieldsAgree ==
    \A p \in Workers :
        (req[p].endpoint = "/process" /\ PastTry(p) /\ response[p].status = 200)
        => LET info == response[p].body.extracted_info
               profile == Profile(CleanText(trace[p].extracted.v))
           IN  /\ info.has_experience_keywords = (Len(info.experience_keywords) > 0)
               /\ info.has_education_keywords = (Len(profile.education_keywords) > 0)
               /\ info.total_skills_found = Len(info.detected_skills)
               /\ \A i \in 1..Len(trace[p].calls) :
                    trace[p].calls[i].method = "generate_career_recommendations"
                        => trace[p].calls[i].arg = info.skills_by_category

\* C7 happens: a success whose two flags differ, with the collaborator called
C7_Witness ==
    \E p \in Workers :
        /\ req[p].endpoint = "/process" /\ pc[p] = "done" /\ response[p].status = 200
        /\ response[p].body.extracted_info.has_education_keywords
        /\ ~response[p].body.extracted_info.has_experience_keywords
        /\ response[p].body.extracted_info.total_skills_found = 1
        /\ trace[p].calls # << >>

\* C8: once an upload handler has saved the file, on every exit path the file
\* it saved no longer exists when the handler returns, provided the removal
\* itself does not fail; the removal happens after this request's extraction.
C8_SavedFileGoneOnReturn ==
    \A p \in Workers :
        /\ (Saved(p) /\ pc[p] = "done")
             => /\ trace[p].removal # "none"
                /\ trace[p].removal # "failed" => StoredBy(upload_folder, file_path[p]) # p
        /\ (Saved(p) /\ trace[p].removal # "none") => trace[p].extractArg # NoPath

\* C8 happens: an early 400 for empty text, and the stored file was removed
C8_Witness ==
    \E p \in Workers :
        /\ Saved(p) /\ pc[p] = "done"
        /\ response[p].status = 400
        /\ trace[p].removal = "removed"
        /\ file_path[p] \notin DOMAIN upload_folder

\* the target role the learning path is to be generated for: the title of the
\* first recommended role when there is one, 'Software Developer' otherwise
FirstTitleOrDefault(career_recs) ==
    IF career_recs.t = "dict"
       /\ "recommended_roles" \in DOMAIN career_recs.v
       /\ Len(career_recs.v.recommended_roles) > 0
       /\ "title" \in DOMAIN career_recs.v.recommended_roles[1]
    THEN career_recs.v.recommended_roles[1].title
    ELSE "Software Developer"

\* C9: in /process with the AI service available, once the three preceding AI
\* calls succeeded generate_learning_path is always invoked, with target_role
\* the title of the first recommended role when there is one and 'Software
\* Developer' otherwise (also for an empty recommended_roles list).
C9_LearningPathTargetRole ==
    \A p \in Workers :
        (req[p].endpoint = "/process" /\ PastTry(p) /\ response[p].status = 200
           /\ "resume_analysis" \in DOMAIN response[p].body.ai_insights)
        => /\ Len(trace[p].calls) = 4
           /\ trace[p].calls[4].method = "generate_learning_path"
           /\ trace[p].calls[4].arg =
                FirstTitleOrDefault(response[p].body.ai_insights.career_recommendations)

RequiredField(endpoint) ==
    CASE endpoint = "/ai/resume-analysis" -> "resume_text"
      [] endpoint = "/ai/learning-path" -> "target_role"
      [] OTHER -> ""

\* the request has a non-empty JSON body with the endpoint's required field
WellFormed(endpoint, data) ==
    /\ Truthy(data)
    /\ RequiredField(endpoint) # "" => Get(data.v, RequiredField(endpoint), "") # ""

\* C10: an /ai/* handler calls the Gemini service only if gemini_service is not
\* None, the JSON body is non-empty and the required field is non-empty;
\* otherwise it answers 503 when the service is unavailable (whatever the
\* body) and 400 when the body or the field is missing, and calls nothing.
C10_AiEndpointGuards ==
    \A p \in Workers :
        (req[p].endpoint \in AiEndpoints /\ pc[p] = "done")
        => LET ok == gemini_service /\ WellFormed(req[p].endpoint, req[p].data)
           IN  /\ trace[p].calls # << >> <=> ok
               /\ ~gemini_service => response[p].status = 503
               /\ (gemini_service /\ ~ok) => response[p].status = 400
               /\ ok => response[p].status \in {200, 500}

\* C10 happens: with the service available one request lacks its required
\* field and is answered 400 without a call, another is well formed and served
C10_Witness ==
    \E p, q \in Workers :
        /\ gemini_service
        /\ req[p].endpoint = "/ai/learning-path" /\ pc[p] = "done"
        /\ req[p].data = PyDict([resume_text |-> "python developer"])
        /\ response[p].status = 400 /\ trace[p].calls = << >>
        /\ req[q].endpoint = "/ai/resume-analysis" /\ pc[q] = "done"
        /\ req[q].data = PyDict([resume_text |-> "python developer"])
        /\ trace[q].calls # << >>

====
